---- MODULE Spec2Model ----
(***************************************************************************)
(* A model of advanced-vector/vector.h: RawMemory<T> (a block of           *)
(* uninitialized storage) and Vector<T> (the container that decides which  *)
(* slots of the block hold constructed objects).                           *)
(*                                                                         *)
(* The heap is a function from block ids to blocks; a block is the         *)
(* sequence of its slots, a slot is Raw (no object) or the value of the    *)
(* object constructed there.  A Vector is the record of its members data_  *)
(* (buffer_, capacity_) and size_.  Indices are 0-based as in the source;  *)
(* slot i of a block is element i+1 of its sequence.                       *)
(*                                                                         *)
(* Every member function is one action.  An element operation that may     *)
(* throw (T's copy constructor, copy assignment, default constructor, and, *)
(* for a T whose move may throw, its move constructor and move assignment) *)
(* fails when it is the k-th such operation of the call, k drawn by the    *)
(* action; k = 0 is a call in which nothing throws.                        *)
(*                                                                         *)
(* The element type T is copy constructible; nothrowMove tells whether     *)
(* its move constructor and move assignment are noexcept, which is what    *)
(* the if constexpr of the relocations asks.  A move leaves its source in  *)
(* the state MovedFrom, as the move of a std::string or a smart pointer    *)
(* does.  An element operation that throws leaves its target as it was.    *)
(* PushBack and Insert are the const T& overloads: the new element is      *)
(* copy constructed from the argument.                                     *)
(***************************************************************************)
EXTENDS Integers, Sequences, FiniteSets, TLC

\* Bounds of the model.
MaxCap == 4      \* largest capacity a call may ask for or grow to
MaxSize == 3     \* largest number of live elements
MaxHeap == 4     \* most slots the instances hold between two calls

Null == 0        \* buffer_ = nullptr
Raw == -1        \* a slot of allocated, uninitialized memory
MovedFrom == 0   \* the state a T is left in after being moved from
DefaultVal == 1  \* the value of T()

Vecs == {"a", "b"}
VecOrder == <<"a", "b">>
BlockIds == {1, 2, 3}
\* The values a caller passes.  No operation looks at a value, so two are
\* enough to tell any two positions of a container apart.
Vals == {1, 2}
FailPoints == 0..(MaxSize + 1)

VARIABLES
    heap,         \* [BlockIds -> block]; <<>> is a block that is not allocated
    vec,          \* [Vecs -> Vector]
    nothrowMove,  \* is_nothrow_move_constructible_v<T>; T is copy constructible
    last          \* the call just made and how it ended

vars == <<heap, vec, nothrowMove, last>>

Min(x, y) == IF x < y THEN x ELSE y

----------------------------------------------------------------------------
(* RawMemory<T> *)

\* operator new: some block that is not allocated (the lowest id).
FreeBlock(h) ==
    CHOOSE b \in BlockIds : h[b] = <<>> /\ \A c \in BlockIds : h[c] = <<>> => b <= c

\* RawMemory::Allocate: n = 0 allocates nothing and yields nullptr.
Allocate(h, n) ==
    IF n = 0 THEN [h |-> h, buf |-> Null]
    ELSE LET b == FreeBlock(h)
         IN [h |-> [h EXCEPT ![b] = [i \in 1..n |-> Raw]], buf |-> b]

\* RawMemory::Deallocate: operator delete(nullptr) does nothing.
Deallocate(h, buf) == IF buf = Null THEN h ELSE [h EXCEPT ![buf] = <<>>]

\* RawMemory(size_t capacity)
RawMemoryCtor(h, capacity) ==
    LET a == Allocate(h, capacity)
    IN [h |-> a.h, data |-> [buffer_ |-> a.buf, capacity_ |-> capacity]]

\* RawMemory() = default
EmptyRawMemory == [buffer_ |-> Null, capacity_ |-> 0]

\* The objects still constructed in a block: ~RawMemory releases the block
\* without running their destructors.
Constructed(h, buf) ==
    IF buf = Null THEN 0
    ELSE Cardinality({i \in DOMAIN h[buf] : h[buf][i] # Raw})

----------------------------------------------------------------------------
(* The <memory> and <algorithm> calls the source makes.  f is the one of   *)
(* the call's own element operations that throws (1 is the first); any     *)
(* other f is a call in which none throws.  The uninitialized_* algorithms *)
(* destroy what they constructed before they rethrow.                      *)

\* std::uninitialized_copy_n(sb + so, n, db + doff)
UninitializedCopyN(h, sb, so, n, db, doff, f) ==
    IF f \in 1..n THEN [h |-> h, ok |-> FALSE]
    ELSE IF n = 0 THEN [h |-> h, ok |-> TRUE]
    ELSE [h |-> [h EXCEPT ![db] =
                    [j \in DOMAIN @ |->
                        IF j \in (doff + 1)..(doff + n)
                        THEN h[sb][so + j - doff] ELSE @[j]]],
          ok |-> TRUE]

\* std::uninitialized_move_n(sb + so, n, db + doff), T's move being noexcept
UninitializedMoveN(h, sb, so, n, db, doff) ==
    IF n = 0 THEN h
    ELSE [h EXCEPT
            ![db] = [j \in DOMAIN @ |->
                        IF j \in (doff + 1)..(doff + n)
                        THEN h[sb][so + j - doff] ELSE @[j]],
            ![sb] = [j \in DOMAIN @ |->
                        IF j \in (so + 1)..(so + n) THEN MovedFrom ELSE @[j]]]

\* std::uninitialized_value_construct_n(b + off, n)
UninitializedValueConstructN(h, b, off, n, f) ==
    IF f \in 1..n THEN [h |-> h, ok |-> FALSE]
    ELSE IF n = 0 THEN [h |-> h, ok |-> TRUE]
    ELSE [h |-> [h EXCEPT ![b] =
                    [j \in DOMAIN @ |->
                        IF j \in (off + 1)..(off + n) THEN DefaultVal ELSE @[j]]],
          ok |-> TRUE]

\* std::destroy_n(b + off, n)
DestroyN(h, b, off, n) ==
    IF n = 0 THEN h
    ELSE [h EXCEPT ![b] =
            [j \in DOMAIN @ |-> IF j \in (off + 1)..(off + n) THEN Raw ELSE @[j]]]

\* std::construct_at(b + off, value) and the assignment *(b + off) = value
ConstructAt(h, b, off, value) == [h EXCEPT ![b][off + 1] = value]

\* std::copy_n(sb, n, db): copy assignment of the first n elements, in order.
\* The assignment that throws leaves its target as it was.
CopyN(h, sb, n, db, f) ==
    LET done == IF f \in 1..n THEN f - 1 ELSE n
    IN [h |-> IF done = 0 THEN h
              ELSE [h EXCEPT ![db] =
                      [j \in DOMAIN @ |-> IF j \in 1..done THEN h[sb][j] ELSE @[j]]],
        ok |-> ~(f \in 1..n)]

----------------------------------------------------------------------------
(* Vector<T> *)

\* Vector() noexcept = default
EmptyVector == [alive |-> TRUE, data_ |-> EmptyRawMemory, size_ |-> 0]

\* An instance that is not constructed (or has been destroyed).
NoVector == [alive |-> FALSE, data_ |-> EmptyRawMemory, size_ |-> 0]

\* What a member function hands back: the heap, the Vector, whether it
\* returned normally, and the objects left constructed in released blocks;
\* copied and moved count the existing elements that were copy and move
\* constructed into a new block.
Result(h, r, ok, leaked) ==
    [h |-> h, r |-> r, ok |-> ok, leaked |-> leaked, copied |-> 0, moved |-> 0]

\* The result res of a call that made the relocations rels.
Relocated(res, rels) ==
    LET Sum(f) == IF Len(rels) = 0 THEN 0
                  ELSE IF Len(rels) = 1 THEN f[1] ELSE f[1] + f[2]
    IN [res EXCEPT !.copied = Sum([i \in DOMAIN rels |-> rels[i].copied]),
                   !.moved = Sum([i \in DOMAIN rels |-> rels[i].moved])]

\* ~RawMemory of a local new_data / of the old block after data_.Swap(new_data)
ReleaseBlock(h, r, ok, buf) == Result(Deallocate(h, buf), r, ok, Constructed(h, buf))

\* A relocation that copies whatever T's move constructor promises.
RelocateAlwaysCopies(h, sb, so, n, db, doff, f) ==
    LET c == UninitializedCopyN(h, sb, so, n, db, doff, f)
    IN [h |-> c.h, ok |-> c.ok, used |-> n,
        copied |-> IF c.ok THEN n ELSE f - 1, moved |-> 0]

\* The move-or-copy relocation of n elements: the if constexpr of Reserve,
\* EmplaceBack and EmplaceWithRealloc.  used is the number of operations
\* that could have thrown.
Relocate(h, sb, so, n, db, doff, f) ==
    IF nothrowMove
    THEN [h |-> UninitializedMoveN(h, sb, so, n, db, doff), ok |-> TRUE, used |-> 0,
          copied |-> 0, moved |-> n]
    ELSE LET c == UninitializedCopyN(h, sb, so, n, db, doff, f)
         IN [h |-> c.h, ok |-> c.ok, used |-> n,
             copied |-> IF c.ok THEN n ELSE f - 1, moved |-> 0]

\* The value the arguments of an emplace denote when the element is
\* constructed: a value of the caller, or an element of this same Vector.
ArgValue(h, r, arg) ==
    IF arg.self THEN h[r.data_.buffer_][arg.idx + 1] ELSE arg.val

ValueArg(v) == [self |-> FALSE, idx |-> 0, val |-> v]
SelfArg(j) == [self |-> TRUE, idx |-> j, val |-> 0]

\* The operations of a call that could throw while n elements are relocated.
RelocateUsed(n) == IF nothrowMove THEN 0 ELSE n

\* Vector(size_t size): a constructor that throws leaves no instance, and
\* its member data_ is released.
VectorSized(h, size, k) ==
    LET nd == RawMemoryCtor(h, size)
        vc == UninitializedValueConstructN(nd.h, nd.data.buffer_, 0, size, k)
    IN IF ~vc.ok THEN ReleaseBlock(vc.h, NoVector, FALSE, nd.data.buffer_)
       ELSE Result(vc.h, [alive |-> TRUE, data_ |-> nd.data, size_ |-> size], TRUE, 0)

\* A copy constructor that copies data_ member by member.
VectorCopyShares(h, other, k) ==
    Result(h, [alive |-> TRUE, data_ |-> other.data_, size_ |-> other.size_], TRUE, 0)

\* Vector(const Vector& other)
VectorCopy(h, other, k) ==
    LET nd == RawMemoryCtor(h, other.size_)
        c == UninitializedCopyN(nd.h, other.data_.buffer_, 0, other.size_,
                                nd.data.buffer_, 0, k)
    IN IF ~c.ok THEN ReleaseBlock(c.h, NoVector, FALSE, nd.data.buffer_)
       ELSE Result(c.h, [alive |-> TRUE, data_ |-> nd.data, size_ |-> other.size_],
                   TRUE, 0)

\* VectorMove without std::exchange(other.size_, 0).
VectorMoveKeepsSize(h, other) ==
    [h |-> h,
     r |-> [alive |-> TRUE, data_ |-> other.data_, size_ |-> other.size_],
     o |-> [other EXCEPT !.data_ = EmptyRawMemory],
     ok |-> TRUE, leaked |-> 0]

\* VectorMove whose RawMemory member is copied: other keeps its block.
VectorMoveKeepsBlock(h, other) ==
    [h |-> h,
     r |-> [alive |-> TRUE, data_ |-> other.data_, size_ |-> other.size_],
     o |-> [other EXCEPT !.size_ = 0],
     ok |-> TRUE, leaked |-> 0]

\* Vector(Vector&& other) noexcept: RawMemory(RawMemory&&) swaps other.data_
\* with an empty RawMemory, size_ is exchanged with 0.
VectorMove(h, other) ==
    [h |-> h,
     r |-> [alive |-> TRUE, data_ |-> other.data_, size_ |-> other.size_],
     o |-> [other EXCEPT !.data_ = EmptyRawMemory, !.size_ = 0],
     ok |-> TRUE, leaked |-> 0]

\* ~Vector, then ~RawMemory of data_
VectorDtor(h, r) ==
    ReleaseBlock(DestroyN(h, r.data_.buffer_, 0, r.size_), NoVector, TRUE,
                 r.data_.buffer_)

\* Vector::Swap
Swap(h, r, other) ==
    [h |-> h,
     r |-> [r EXCEPT !.data_ = other.data_, !.size_ = other.size_],
     o |-> [other EXCEPT !.data_ = r.data_, !.size_ = r.size_],
     ok |-> TRUE, leaked |-> 0]

\* A move assignment that copies the members of rhs and leaves rhs as it is.
MoveAssignShares(h, r, rhs) ==
    [h |-> h,
     r |-> [r EXCEPT !.data_ = rhs.data_, !.size_ = rhs.size_],
     o |-> rhs,
     ok |-> TRUE, leaked |-> 0]

\* Vector::operator=(Vector&& rhs) noexcept
MoveAssign(h, r, rhs) == Swap(h, r, rhs)

\* operator= writing size_ ahead of the element copies.
CopyAssignSizeFirst(h, r, rhs, k) ==
    IF rhs.size_ > r.data_.capacity_
    THEN LET tmp == VectorCopy(h, rhs, k)
         IN IF ~tmp.ok THEN Result(tmp.h, r, FALSE, tmp.leaked)
            ELSE LET d == VectorDtor(tmp.h, r)
                 IN Result(d.h, tmp.r, TRUE, d.leaked)
    ELSE LET m == Min(r.size_, rhs.size_)
             r1 == [r EXCEPT !.size_ = rhs.size_]
             cp == CopyN(h, rhs.data_.buffer_, m, r.data_.buffer_, k)
         IN IF ~cp.ok THEN Result(cp.h, r1, FALSE, 0)
            ELSE IF r.size_ < rhs.size_
            THEN LET uc == UninitializedCopyN(cp.h, rhs.data_.buffer_, r.size_,
                                              rhs.size_ - r.size_,
                                              r.data_.buffer_, r.size_, k - m)
                 IN Result(uc.h, r1, uc.ok, 0)
            ELSE Result(DestroyN(cp.h, r.data_.buffer_, rhs.size_, r.size_ - rhs.size_),
                        r1, TRUE, 0)

\* operator= that always builds a copy of rhs and swaps it in.
CopyAssignAlwaysCopies(h, r, rhs, k) ==
    LET tmp == VectorCopy(h, rhs, k)
    IN IF ~tmp.ok THEN Result(tmp.h, r, FALSE, tmp.leaked)
       ELSE LET d == VectorDtor(tmp.h, r)
            IN Result(d.h, tmp.r, TRUE, d.leaked)

\* Vector::operator=(const Vector& rhs), this != &rhs
CopyAssign(h, r, rhs, k) ==
    IF rhs.size_ > r.data_.capacity_
    THEN LET tmp == VectorCopy(h, rhs, k)
         IN IF ~tmp.ok THEN Result(tmp.h, r, FALSE, tmp.leaked)
            ELSE \* Swap(tmp), then ~Vector of tmp, which holds the old block
                 LET d == VectorDtor(tmp.h, r)
                 IN Result(d.h, tmp.r, TRUE, d.leaked)
    ELSE LET m == Min(r.size_, rhs.size_)
             cp == CopyN(h, rhs.data_.buffer_, m, r.data_.buffer_, k)
         IN IF ~cp.ok THEN Result(cp.h, r, FALSE, 0)
            ELSE IF r.size_ < rhs.size_
            THEN LET uc == UninitializedCopyN(cp.h, rhs.data_.buffer_, r.size_,
                                              rhs.size_ - r.size_,
                                              r.data_.buffer_, r.size_, k - m)
                 IN IF ~uc.ok THEN Result(uc.h, r, FALSE, 0)
                    ELSE Result(uc.h, [r EXCEPT !.size_ = rhs.size_], TRUE, 0)
            ELSE Result(DestroyN(cp.h, r.data_.buffer_, rhs.size_, r.size_ - rhs.size_),
                        [r EXCEPT !.size_ = rhs.size_], TRUE, 0)

\* Reserve with data_.Swap(new_data) ahead of the relocation.
ReserveSwapsFirst(h, r, new_capacity, k) ==
    IF new_capacity <= r.data_.capacity_ THEN Result(h, r, TRUE, 0)
    ELSE LET nd == RawMemoryCtor(h, new_capacity)
             rel == Relocate(nd.h, r.data_.buffer_, 0, r.size_, nd.data.buffer_, 0, k)
         IN IF ~rel.ok
            THEN ReleaseBlock(rel.h, [r EXCEPT !.data_ = nd.data], FALSE, r.data_.buffer_)
            ELSE ReleaseBlock(DestroyN(rel.h, r.data_.buffer_, 0, r.size_),
                              [r EXCEPT !.data_ = nd.data], TRUE, r.data_.buffer_)

\* Reserve that allocates one slot more than it was asked for.
ReserveAddsOne(h, r, new_capacity, k) ==
    IF new_capacity <= r.data_.capacity_ THEN Result(h, r, TRUE, 0)
    ELSE LET nd == RawMemoryCtor(h, new_capacity + 1)
             rel == Relocate(nd.h, r.data_.buffer_, 0, r.size_, nd.data.buffer_, 0, k)
         IN IF ~rel.ok THEN ReleaseBlock(rel.h, r, FALSE, nd.data.buffer_)
            ELSE ReleaseBlock(DestroyN(rel.h, r.data_.buffer_, 0, r.size_),
                              [r EXCEPT !.data_ = nd.data], TRUE, r.data_.buffer_)

\* Vector::Reserve
Reserve(h, r, new_capacity, k) ==
    IF new_capacity <= r.data_.capacity_ THEN Result(h, r, TRUE, 0)
    ELSE LET nd == RawMemoryCtor(h, new_capacity)
             rel == Relocate(nd.h, r.data_.buffer_, 0, r.size_, nd.data.buffer_, 0, k)
         IN Relocated(
              IF ~rel.ok THEN ReleaseBlock(rel.h, r, FALSE, nd.data.buffer_)
              ELSE ReleaseBlock(DestroyN(rel.h, r.data_.buffer_, 0, r.size_),
                                [r EXCEPT !.data_ = nd.data], TRUE, r.data_.buffer_),
              <<rel>>)

\* Resize writing size_ ahead of the default constructions.
ResizeSizeFirst(h, r, new_size, k) ==
    IF new_size < r.size_
    THEN Result(DestroyN(h, r.data_.buffer_, new_size, r.size_ - new_size),
                [r EXCEPT !.size_ = new_size], TRUE, 0)
    ELSE LET grow == new_size > r.data_.capacity_
             rs == IF grow THEN Reserve(h, r, new_size, k) ELSE Result(h, r, TRUE, 0)
             used == IF grow THEN RelocateUsed(r.size_) ELSE 0
         IN IF ~rs.ok THEN rs
            ELSE LET vc == UninitializedValueConstructN(
                               rs.h, rs.r.data_.buffer_, r.size_,
                               new_size - r.size_, k - used)
                 IN Result(vc.h, [rs.r EXCEPT !.size_ = new_size], vc.ok, rs.leaked)

\* Vector::Resize
Resize(h, r, new_size, k) ==
    IF new_size < r.size_
    THEN Result(DestroyN(h, r.data_.buffer_, new_size, r.size_ - new_size),
                [r EXCEPT !.size_ = new_size], TRUE, 0)
    ELSE LET grow == new_size > r.data_.capacity_
             rs == IF grow THEN Reserve(h, r, new_size, k) ELSE Result(h, r, TRUE, 0)
             used == IF grow THEN RelocateUsed(r.size_) ELSE 0
         IN IF ~rs.ok THEN rs
            ELSE LET vc == UninitializedValueConstructN(
                               rs.h, rs.r.data_.buffer_, r.size_,
                               new_size - r.size_, k - used)
                 IN Relocated(
                      IF ~vc.ok THEN Result(vc.h, rs.r, FALSE, rs.leaked)
                      ELSE Result(vc.h, [rs.r EXCEPT !.size_ = new_size], TRUE,
                                  rs.leaked),
                      <<rs>>)

\* Vector::PopBack
PopBack(h, r) ==
    Result(DestroyN(h, r.data_.buffer_, r.size_ - 1, 1),
           [r EXCEPT !.size_ = @ - 1], TRUE, 0)

\* EmplaceBack growing by one slot instead of doubling.
EmplaceBackGrowsByOne(h, r, arg, k) ==
    IF r.size_ = r.data_.capacity_
    THEN LET nd == RawMemoryCtor(h, r.size_ + 1)
             rel == Relocate(nd.h, r.data_.buffer_, 0, r.size_, nd.data.buffer_, 0, k)
         IN IF ~rel.ok THEN ReleaseBlock(rel.h, r, FALSE, nd.data.buffer_)
            ELSE IF k - rel.used = 1
            THEN ReleaseBlock(DestroyN(rel.h, nd.data.buffer_, 0, r.size_),
                              r, FALSE, nd.data.buffer_)
            ELSE LET h1 == ConstructAt(rel.h, nd.data.buffer_, r.size_,
                                       ArgValue(rel.h, r, arg))
                     h2 == DestroyN(h1, r.data_.buffer_, 0, r.size_)
                 IN ReleaseBlock(h2, [r EXCEPT !.data_ = nd.data, !.size_ = @ + 1],
                                 TRUE, r.data_.buffer_)
    ELSE IF k = 1 THEN Result(h, r, FALSE, 0)
         ELSE Result(ConstructAt(h, r.data_.buffer_, r.size_, ArgValue(h, r, arg)),
                     [r EXCEPT !.size_ = @ + 1], TRUE, 0)

\* Vector::EmplaceBack (PushBack forwards to it)
EmplaceBack(h, r, arg, k) ==
    IF r.size_ = r.data_.capacity_
    THEN LET new_capacity == IF r.size_ = 0 THEN 1 ELSE r.size_ * 2
             nd == RawMemoryCtor(h, new_capacity)
             rel == Relocate(nd.h, r.data_.buffer_, 0, r.size_, nd.data.buffer_, 0, k)
         IN Relocated(
              IF ~rel.ok THEN ReleaseBlock(rel.h, r, FALSE, nd.data.buffer_)
              ELSE IF k - rel.used = 1
              THEN \* catch (...) { destroy_n(new_data, size_); throw; }
                   ReleaseBlock(DestroyN(rel.h, nd.data.buffer_, 0, r.size_),
                                r, FALSE, nd.data.buffer_)
              ELSE LET h1 == ConstructAt(rel.h, nd.data.buffer_, r.size_,
                                         ArgValue(rel.h, r, arg))
                       h2 == DestroyN(h1, r.data_.buffer_, 0, r.size_)
                   IN ReleaseBlock(h2, [r EXCEPT !.data_ = nd.data, !.size_ = @ + 1],
                                   TRUE, r.data_.buffer_),
              <<rel>>)
    ELSE IF k = 1 THEN Result(h, r, FALSE, 0)
         ELSE Result(ConstructAt(h, r.data_.buffer_, r.size_, ArgValue(h, r, arg)),
                     [r EXCEPT !.size_ = @ + 1], TRUE, 0)

\* Vector::EmplaceWithRealloc: nothing catches, so a throw leaves through
\* ~RawMemory of new_data alone.
EmplaceWithRealloc(h, r, index, arg, k) ==
    LET new_capacity == IF r.size_ = 0 THEN 1 ELSE r.size_ * 2
        nd == RawMemoryCtor(h, new_capacity)
        nb == nd.data.buffer_
        rel1 == Relocate(nd.h, r.data_.buffer_, 0, index, nb, 0, k)
        k1 == k - rel1.used
    IN IF ~rel1.ok THEN Relocated(ReleaseBlock(rel1.h, r, FALSE, nb), <<rel1>>)
       ELSE IF k1 = 1 THEN Relocated(ReleaseBlock(rel1.h, r, FALSE, nb), <<rel1>>)
       ELSE LET h1 == ConstructAt(rel1.h, nb, index, ArgValue(rel1.h, r, arg))
                rel2 == Relocate(h1, r.data_.buffer_, index, r.size_ - index,
                                 nb, index + 1, k1 - 1)
            IN Relocated(
                 IF ~rel2.ok THEN ReleaseBlock(rel2.h, r, FALSE, nb)
                 ELSE ReleaseBlock(DestroyN(rel2.h, r.data_.buffer_, 0, r.size_),
                                   [r EXCEPT !.data_ = nd.data, !.size_ = @ + 1],
                                   TRUE, r.data_.buffer_),
                 <<rel1, rel2>>)

\* The block b of size live elements after construct_at(data_ + size_,
\* move(data_[size_ - 1])) and d rounds of data_[i] = move(data_[i - 1]),
\* i = size_ - 1 downwards.
ShiftedRight(h, b, size, d) ==
    [h EXCEPT ![b] =
        [j \in DOMAIN @ |->
            IF j - 1 \in (size - d)..size THEN h[b][j - 1]
            ELSE IF j - 1 = size - d - 1 THEN MovedFrom
            ELSE @[j]]]

\* EmplaceWithoutRealloc whose shifting loop stops one round early
\* (i > index + 1).
EmplaceWithoutReallocStopsEarly(h, r, index, arg, k) ==
    IF k = 1 THEN Result(h, r, FALSE, 0)
    ELSE LET temp == ArgValue(h, r, arg)
             b == r.data_.buffer_
             m == r.size_ - 1 - index
             rounds == IF m > 0 THEN m - 1 ELSE 0
         IN IF index < r.size_
            THEN Result(ConstructAt(ShiftedRight(h, b, r.size_, rounds), b, index, temp),
                        [r EXCEPT !.size_ = @ + 1], TRUE, 0)
            ELSE Result(ConstructAt(h, b, index, temp),
                        [r EXCEPT !.size_ = @ + 1], TRUE, 0)

\* EmplaceWithoutRealloc that shifts the tail before it constructs temp.
EmplaceWithoutReallocShiftsFirst(h, r, index, arg, k) ==
    LET temp == ArgValue(h, r, arg)
        b == r.data_.buffer_
        m == r.size_ - 1 - index
    IN IF index < r.size_
       THEN IF k = 1 THEN Result(ShiftedRight(h, b, r.size_, m), r, FALSE, 0)
            ELSE Result(ConstructAt(ShiftedRight(h, b, r.size_, m), b, index, temp),
                        [r EXCEPT !.size_ = @ + 1], TRUE, 0)
       ELSE IF k = 1 THEN Result(h, r, FALSE, 0)
            ELSE Result(ConstructAt(h, b, index, temp),
                        [r EXCEPT !.size_ = @ + 1], TRUE, 0)

\* Vector::EmplaceWithoutRealloc.  T temp(args) is the first operation that
\* may throw; the moves that follow may throw when T's move may.
EmplaceWithoutRealloc(h, r, index, arg, k) ==
    IF k = 1 THEN Result(h, r, FALSE, 0)
    ELSE LET temp == ArgValue(h, r, arg)
             b == r.data_.buffer_
             km == IF nothrowMove THEN 0 ELSE k - 1
         IN IF index < r.size_
            THEN LET m == r.size_ - 1 - index
                 IN IF km = 1 THEN Result(h, r, FALSE, 0)
                    ELSE IF km - 1 \in 1..m
                    THEN Result(ShiftedRight(h, b, r.size_, km - 2), r, FALSE, 0)
                    ELSE IF km - 1 = m + 1
                    THEN Result(ShiftedRight(h, b, r.size_, m), r, FALSE, 0)
                    ELSE Result(ConstructAt(ShiftedRight(h, b, r.size_, m), b, index, temp),
                                [r EXCEPT !.size_ = @ + 1], TRUE, 0)
            ELSE IF km = 1 THEN Result(h, r, FALSE, 0)
                 ELSE Result(ConstructAt(h, b, index, temp),
                             [r EXCEPT !.size_ = @ + 1], TRUE, 0)

\* Emplace that puts the new element behind the position it is given.
EmplaceInsertsAfter(h, r, index, arg, k) ==
    IF r.size_ = r.data_.capacity_
    THEN EmplaceWithRealloc(h, r, index + 1, arg, k)
    ELSE EmplaceWithoutRealloc(h, r, index + 1, arg, k)

\* Vector::Emplace (Insert forwards to it)
Emplace(h, r, index, arg, k) ==
    IF r.size_ = r.data_.capacity_
    THEN EmplaceWithRealloc(h, r, index, arg, k)
    ELSE EmplaceWithoutRealloc(h, r, index, arg, k)

\* The block b after d rounds of std::move(pos + 1, end, pos): element
\* index + t - 1 is move-assigned from element index + t, t = 1..d.
ShiftedLeft(h, b, index, d) ==
    IF d = 0 THEN h
    ELSE [h EXCEPT ![b] =
            [j \in DOMAIN @ |->
                IF j - 1 \in index..(index + d - 1) THEN h[b][j + 1]
                ELSE IF j - 1 = index + d THEN MovedFrom
                ELSE @[j]]]

\* Erase that destroys the last element without closing the gap.
EraseKeepsGap(h, r, index, k) ==
    Result(DestroyN(h, r.data_.buffer_, r.size_ - 1, 1),
           [r EXCEPT !.size_ = @ - 1], TRUE, 0)

\* Vector::Erase
Erase(h, r, index, k) ==
    LET m == r.size_ - 1 - index
        b == r.data_.buffer_
    IN IF ~nothrowMove /\ k \in 1..m
       THEN Result(ShiftedLeft(h, b, index, k - 1), r, FALSE, 0)
       ELSE Result(DestroyN(ShiftedLeft(h, b, index, m), b, r.size_ - 1, 1),
                   [r EXCEPT !.size_ = @ - 1], TRUE, 0)

----------------------------------------------------------------------------
(* The calls a program makes *)

\* Block ids stand for addresses, which no operation of the source looks
\* at: the state is kept up to their renaming, the blocks of the instances
\* first, in the order of VecOrder.
Owned(vs) ==
    LET b1 == vs[VecOrder[1]].data_.buffer_
        b2 == vs[VecOrder[2]].data_.buffer_
        s1 == IF b1 # Null THEN <<b1>> ELSE <<>>
    IN IF b2 # Null /\ b2 # b1 THEN Append(s1, b2) ELSE s1

\* The block ids in their new order: the owned ones, then the others.
Renaming(vs) ==
    LET own == Owned(vs)
        rest == BlockIds \ {own[i] : i \in DOMAIN own}
    IN own \o [i \in 1..Cardinality(rest) |->
                  CHOOSE x \in rest : Cardinality({y \in rest : y < x}) = i - 1]

Renamed(h, vs) ==
    LET p == Renaming(vs)
    IN IF \A y \in BlockIds : p[y] = y THEN [h |-> h, vs |-> vs]
       ELSE [h |-> [y \in BlockIds |-> h[p[y]]],
             vs |-> [v \in Vecs |->
                       IF vs[v].data_.buffer_ = Null THEN vs[v]
                       ELSE [vs[v] EXCEPT !.data_.buffer_ =
                                CHOOSE y \in BlockIds : p[y] = @]]]

HeapUse(vs) == vs[VecOrder[1]].data_.capacity_ + vs[VecOrder[2]].data_.capacity_

Call(op, res) == [op |-> op, failed |-> ~res.ok, leaked |-> res.leaked]

Commit(h, vs) ==
    /\ HeapUse(vs) <= MaxHeap
    /\ LET rn == Renamed(h, vs)
       IN heap' = rn.h /\ vec' = rn.vs
    /\ UNCHANGED nothrowMove

\* A call on one instance.  A k > 0 is drawn only where it makes the call
\* throw: the actions bound k by the operations the call can make.
Commit1(v, k, res) ==
    /\ k = 0 \/ ~res.ok
    /\ Commit(res.h, [vec EXCEPT ![v] = res.r])

\* A call that also writes its argument w.
Commit2(v, w, res) ==
    Commit(res.h, [vec EXCEPT ![v] = res.r, ![w] = res.o])

DoDefaultCtor(v) ==
    /\ ~vec[v].alive
    /\ LET res == Result(heap, EmptyVector, TRUE, 0)
       IN Commit1(v, 0, res) /\ last' = Call("Vector", res)

DoSizedCtor(v, n, k) ==
    /\ ~vec[v].alive
    /\ k <= n
    /\ LET res == VectorSized(heap, n, k)
       IN Commit1(v, k, res) /\ last' = Call("VectorN", res)

DoCopyCtor(v, w, k) ==
    /\ ~vec[v].alive /\ vec[w].alive
    /\ k <= vec[w].size_
    /\ LET res == VectorCopy(heap, vec[w], k)
       IN Commit1(v, k, res) /\ last' = Call("VectorCopy", res)

DoMoveCtor(v, w) ==
    /\ ~vec[v].alive /\ vec[w].alive
    /\ LET res == VectorMove(heap, vec[w])
       IN Commit2(v, w, res) /\ last' = Call("VectorMove", res)

DoDtor(v) ==
    /\ vec[v].alive
    /\ LET res == VectorDtor(heap, vec[v])
       IN Commit1(v, 0, res) /\ last' = Call("~Vector", res)

DoCopyAssign(v, w, k) ==
    /\ vec[v].alive /\ vec[w].alive
    /\ k <= vec[w].size_
    /\ LET res == IF v = w THEN Result(heap, vec[v], TRUE, 0)
                  ELSE CopyAssign(heap, vec[v], vec[w], k)
       IN Commit1(v, k, res) /\ last' = Call("CopyAssign", res)

DoMoveAssign(v, w) ==
    /\ vec[v].alive /\ vec[w].alive
    /\ LET res == MoveAssign(heap, vec[v], vec[w])
       IN Commit2(v, w, res) /\ last' = Call("MoveAssign", res)

DoSwap(v, w) ==
    /\ vec[v].alive /\ vec[w].alive
    /\ LET res == Swap(heap, vec[v], vec[w])
       IN Commit2(v, w, res) /\ last' = Call("Swap", res)

DoReserve(v, n, k) ==
    /\ vec[v].alive
    /\ k <= vec[v].size_
    /\ LET res == Reserve(heap, vec[v], n, k)
       IN Commit1(v, k, res) /\ last' = Call("Reserve", res)

DoResize(v, n, k) ==
    /\ vec[v].alive
    /\ k <= n
    /\ LET res == Resize(heap, vec[v], n, k)
       IN Commit1(v, k, res) /\ last' = Call("Resize", res)

\* A call that adds an element stays within MaxSize and MaxCap.
CanGrow(r) ==
    /\ r.alive
    /\ r.size_ < MaxSize
    /\ r.size_ = r.data_.capacity_ => 2 * r.size_ <= MaxCap

DoPushBack(v, x, k) ==
    /\ CanGrow(vec[v])
    /\ k <= vec[v].size_ + 1
    /\ LET res == EmplaceBack(heap, vec[v], ValueArg(x), k)
       IN Commit1(v, k, res) /\ last' = Call("PushBack", res)

DoPopBack(v) ==
    /\ vec[v].alive
    /\ vec[v].size_ > 0
    /\ LET res == PopBack(heap, vec[v])
       IN Commit1(v, 0, res) /\ last' = Call("PopBack", res)

DoInsert(v, i, x, k) ==
    /\ CanGrow(vec[v])
    /\ i <= vec[v].size_
    /\ k <= vec[v].size_ + 2
    /\ LET res == Emplace(heap, vec[v], i, ValueArg(x), k)
       IN Commit1(v, k, res) /\ last' = Call("Insert", res)

DoErase(v, i, k) ==
    /\ vec[v].alive
    /\ i < vec[v].size_
    /\ k < vec[v].size_ - i
    /\ LET res == Erase(heap, vec[v], i, k)
       IN Commit1(v, k, res) /\ last' = Call("Erase", res)

\* v.PushBack(v[j]) and v.Insert(v.begin() + i, v[j])
DoPushBackSelf(v, j, k) ==
    /\ CanGrow(vec[v])
    /\ j < vec[v].size_
    /\ k <= vec[v].size_ + 1
    /\ LET res == EmplaceBack(heap, vec[v], SelfArg(j), k)
       IN Commit1(v, k, res) /\ last' = Call("PushBackSelf", res)

DoInsertSelf(v, i, j, k) ==
    /\ CanGrow(vec[v])
    /\ i <= vec[v].size_
    /\ j < vec[v].size_
    /\ k <= vec[v].size_ + 2
    /\ LET res == Emplace(heap, vec[v], i, SelfArg(j), k)
       IN Commit1(v, k, res) /\ last' = Call("InsertSelf", res)

Init ==
    /\ heap = [b \in BlockIds |-> <<>>]
    /\ vec = [v \in Vecs |-> NoVector]
    /\ nothrowMove \in BOOLEAN
    /\ last = [op |-> "none", failed |-> FALSE, leaked |-> 0]

Sizes == 0..Min(MaxSize, MaxCap)
Indexes == 0..MaxSize

\* The calls on one instance.
Single(v) ==
    \/ DoDefaultCtor(v)
    \/ \E n \in Sizes, k \in FailPoints : DoSizedCtor(v, n, k)
    \/ DoDtor(v)
    \/ \E n \in 0..MaxCap, k \in FailPoints : DoReserve(v, n, k)
    \/ \E n \in Sizes, k \in FailPoints : DoResize(v, n, k)
    \/ \E x \in Vals, k \in FailPoints : DoPushBack(v, x, k)
    \/ DoPopBack(v)
    \/ \E i \in Indexes, x \in Vals, k \in FailPoints : DoInsert(v, i, x, k)
    \/ \E i \in Indexes, k \in FailPoints : DoErase(v, i, k)

\* The calls on one instance whose argument is an element of the instance.
SelfArgs(v) ==
    \/ \E j \in Indexes, k \in FailPoints : DoPushBackSelf(v, j, k)
    \/ \E i \in Indexes, j \in Indexes, k \in FailPoints : DoInsertSelf(v, i, j, k)

\* The calls that take another instance.
Pair(v, w) ==
    \/ \E k \in FailPoints : DoCopyCtor(v, w, k)
    \/ DoMoveCtor(v, w)
    \/ \E k \in FailPoints : DoCopyAssign(v, w, k)
    \/ DoMoveAssign(v, w)
    \/ DoSwap(v, w)

Next ==
    \/ \E v \in Vecs : Single(v)
    \/ \E v \in Vecs, w \in Vecs : Pair(v, w)

Spec == Init /\ [][Next]_vars

\* A program with the one instance a.
NextOne == Single(VecOrder[1]) \/ SelfArgs(VecOrder[1])

SpecOne == Init /\ [][NextOne]_vars

\* A program that only appends to instances constructed empty.
NextAppend ==
    \/ \E v \in Vecs : DoDefaultCtor(v)
    \/ \E v \in Vecs, x \in Vals, k \in FailPoints : DoPushBack(v, x, k)
    \/ \E v \in Vecs, j \in Indexes, k \in FailPoints : DoPushBackSelf(v, j, k)

SpecAppend == Init /\ [][NextAppend]_vars

\* A program that constructs the instance a empty, appends three values with
\* EmplaceBack, inserts a value at begin() + 1 and erases at begin(); no
\* element operation throws.  The values are any of ScenarioVals.
ScenarioVals == {1, 2, 3, 9}

ScenarioEmplaceBack(x) ==
    LET v == VecOrder[1]
    IN /\ vec[v].alive
       /\ last.op \in {"Vector", "EmplaceBack"}
       /\ vec[v].size_ < 3
       /\ LET res == EmplaceBack(heap, vec[v], ValueArg(x), 0)
          IN Commit1(v, 0, res) /\ last' = Call("EmplaceBack", res)

ScenarioInsert(x) ==
    LET v == VecOrder[1]
    IN /\ last.op = "EmplaceBack"
       /\ vec[v].size_ = 3
       /\ LET res == Emplace(heap, vec[v], 1, ValueArg(x), 0)
          IN Commit1(v, 0, res) /\ last' = Call("Insert", res)

ScenarioErase ==
    LET v == VecOrder[1]
    IN /\ last.op = "Insert"
       /\ LET res == Erase(heap, vec[v], 0, 0)
          IN Commit1(v, 0, res) /\ last' = Call("Erase", res)

NextScenario ==
    \/ DoDefaultCtor(VecOrder[1])
    \/ \E x \in ScenarioVals : ScenarioEmplaceBack(x)
    \/ \E x \in ScenarioVals : ScenarioInsert(x)
    \/ ScenarioErase

SpecScenario == Init /\ [][NextScenario]_vars

----------------------------------------------------------------------------
(* What a caller observes of an instance *)

Size(v) == vec[v].size_
Capacity(v) == vec[v].data_.capacity_

\* The elements [0, Size()) as a sequence.
Elems(v) == [i \in 1..vec[v].size_ |-> heap[vec[v].data_.buffer_][i]]

View(v) == [size |-> Size(v), capacity |-> Capacity(v), elems |-> Elems(v)]

Max(x, y) == IF x > y THEN x ELSE y

----------------------------------------------------------------------------
(* The claims *)

\* C1: in every reachable state, whatever calls were made and however they
\* ended, every instance has 0 <= Size() <= Capacity().
Thm_C1 == \A v \in Vecs : 0 <= Size(v) /\ Size(v) <= Capacity(v)

\* A call has thrown and left an instance that is full.
Wit_C1 ==
    /\ last.failed
    /\ \E v \in Vecs : vec[v].alive /\ Size(v) = Capacity(v) /\ Size(v) >= 2

\* The step is a call on v in which a copy constructor throws while the
\* existing elements are relocated into a new block.
RelocationThrows(v) ==
    /\ ~nothrowMove
    /\ \/ /\ last'.op = "Reserve"
          /\ \E n \in 0..MaxCap, k \in 1..MaxSize : DoReserve(v, n, k)
       \/ /\ last'.op = "Resize"
          /\ \E n \in Sizes, k \in 1..MaxSize :
                n > Capacity(v) /\ k <= Size(v) /\ DoResize(v, n, k)
       \/ /\ last'.op = "PushBack"
          /\ Size(v) = Capacity(v)
          /\ \E x \in Vals, k \in 1..MaxSize : k <= Size(v) /\ DoPushBack(v, x, k)
       \/ /\ last'.op = "Insert"
          /\ Size(v) = Capacity(v)
          /\ \E i \in Indexes, x \in Vals, k \in 1..MaxSize :
                k <= Size(v) + 1 /\ k # i + 1 /\ DoInsert(v, i, x, k)

\* C2: for a T relocated by copy, a copy constructor that throws during the
\* relocation of Reserve, Resize, EmplaceBack or Emplace propagates, and
\* size, capacity and elements are what they were before the call.
Thm_C2 ==
    [][\A v \in Vecs : RelocationThrows(v) => last'.failed /\ View(v)' = View(v)]_vars

\* A Reserve of a T relocated by copy has thrown.
Wit_C2 ==
    /\ ~nothrowMove /\ last.op = "Reserve" /\ last.failed
    /\ \E v \in Vecs : Size(v) >= 2

\* C3 (as claimed): when EmplaceBack/PushBack at size == capacity throws in
\* the construction of the new element, the container is exactly as before,
\* for a T relocated by move as for one relocated by copy.
Claim_C3 ==
    [][\A v \in Vecs, x \in Vals, k \in FailPoints :
          (/\ last'.op = "PushBack"
           /\ Size(v) = Capacity(v)
           /\ k = RelocateUsed(Size(v)) + 1
           /\ DoPushBack(v, x, k))
          => last'.failed /\ View(v)' = View(v)]_vars

\* C4 (as claimed): when Emplace/Insert at size == capacity throws, in the
\* construction of the new element or in a relocation, Size() and the
\* elements are unchanged, for every T.
Claim_C4 ==
    [][\A v \in Vecs, i \in Indexes, x \in Vals, k \in FailPoints :
          (/\ last'.op = "Insert"
           /\ Size(v) = Capacity(v)
           /\ k >= 1
           /\ DoInsert(v, i, x, k))
          => last'.failed /\ Size(v)' = Size(v) /\ Elems(v)' = Elems(v)]_vars

\* C5 (as claimed): when a call throws, no object is left constructed in a
\* block that the call releases.
Claim_C5 == last.failed => last.leaked = 0

\* C6 (as claimed): a copy assignment that throws leaves the size and the
\* elements of the destination unchanged, on the temporary-copy path and on
\* the element-by-element path.
Claim_C6 ==
    [][\A v \in Vecs, w \in Vecs, k \in 1..MaxSize :
          (last'.op = "CopyAssign" /\ DoCopyAssign(v, w, k))
          => Size(v)' = Size(v) /\ Elems(v)' = Elems(v)]_vars

\* C6 (amended): a copy assignment that throws leaves the size and capacity
\* of the destination and all of rhs unchanged; with rhs.size > capacity the
\* elements are unchanged too; with a capacity that suffices, the elements
\* at [min(size, rhs.size), size) are unchanged and each element of the
\* overlapping prefix holds its old value or the value of rhs at its index.
Thm_C6 ==
    [][\A v \in Vecs, w \in Vecs, k \in 1..MaxSize :
          (last'.op = "CopyAssign" /\ DoCopyAssign(v, w, k))
          => /\ last'.failed
             /\ Size(v)' = Size(v) /\ Capacity(v)' = Capacity(v)
             /\ View(w)' = View(w)
             /\ Size(w) > Capacity(v) => Elems(v)' = Elems(v)
             /\ Size(w) <= Capacity(v) =>
                   \A i \in 1..Size(v) :
                      IF i > Min(Size(v), Size(w))
                      THEN Elems(v)'[i] = Elems(v)[i]
                      ELSE Elems(v)'[i] \in {Elems(v)[i], Elems(w)[i]}]_vars

\* A copy assignment has thrown after overwriting the first element of a
\* destination whose capacity sufficed.
Wit_C6 ==
    /\ last.op = "CopyAssign" /\ last.failed
    /\ \E v \in Vecs, w \in Vecs :
          /\ Size(v) >= 2 /\ Size(w) >= 2 /\ Size(w) <= Capacity(v)
          /\ Elems(v)[1] = Elems(w)[1] /\ Elems(v)[2] # Elems(w)[2]

\* The sequence E with x inserted at index i.
InsertedAt(E, i, x) == SubSeq(E, 1, i) \o <<x>> \o SubSeq(E, i + 1, Len(E))

\* The sequence E without the element at index i.
ErasedAt(E, i) == SubSeq(E, 1, i) \o SubSeq(E, i + 2, Len(E))

\* C7: a successful Insert/Emplace of x at index i of n elements, with or
\* without reallocation, yields size n+1, x at i, the elements of [0, i)
\* where they were and those of [i, n) at [i+1, n+1) in the same order.
Thm_C7 ==
    [][\A v \in Vecs, i \in Indexes, x \in Vals :
          (last'.op = "Insert" /\ DoInsert(v, i, x, 0))
          => /\ ~last'.failed
             /\ Size(v)' = Size(v) + 1
             /\ Elems(v)' = InsertedAt(Elems(v), i, x)]_vars

\* An Insert has succeeded without reallocation (a capacity of 3 is never
\* the double of a size) and left two different neighbours.
Wit_C7 ==
    /\ last.op = "Insert" /\ ~last.failed
    /\ \E v \in Vecs : Size(v) = 3 /\ Capacity(v) = 3 /\ Elems(v)[1] # Elems(v)[2]

\* C8: Erase at index i of n elements yields size n-1, the same capacity,
\* the elements of [0, i) where they were and those of (i, n) at [i, n-1) in
\* the same order.
Thm_C8 ==
    [][\A v \in Vecs, i \in Indexes :
          (last'.op = "Erase" /\ DoErase(v, i, 0))
          => /\ ~last'.failed
             /\ Size(v)' = Size(v) - 1
             /\ Capacity(v)' = Capacity(v)
             /\ Elems(v)' = ErasedAt(Elems(v), i)]_vars

\* An Erase has succeeded on three elements.
Wit_C8 ==
    /\ last.op = "Erase" /\ ~last.failed
    /\ \E v \in Vecs : Size(v) = 2 /\ Capacity(v) = 3 /\ Elems(v)[1] # Elems(v)[2]

IsPowerOfTwo(c) == \E e \in 0..c : 2^e = c

NoSharing ==
    \A v \in Vecs, w \in Vecs :
        v # w /\ vec[v].data_.buffer_ # Null
        => vec[v].data_.buffer_ # vec[w].data_.buffer_

\* The calls that write the instance they are given as an argument.
TwoInstanceOps == {"VectorMove", "MoveAssign", "Swap"}

\* C10: copy construction of v from w gives v the size of w as its size and
\* its capacity and the elements of w, and leaves w as it was; the two
\* never hold the same block, and a call on one instance changes what is
\* observed of no other.
Thm_C10 ==
    [][/\ \A v \in Vecs, w \in Vecs :
            (last'.op = "VectorCopy" /\ DoCopyCtor(v, w, 0))
            => /\ ~last'.failed
               /\ Size(v)' = Size(w) /\ Capacity(v)' = Size(w)
               /\ Elems(v)' = Elems(w)
               /\ View(w)' = View(w)
       /\ NoSharing'
       /\ last'.op \notin TwoInstanceOps
            => Cardinality({w \in Vecs : View(w)' # View(w)}) <= 1]_vars

\* A copy has been constructed from an instance of two different elements.
Wit_C10 ==
    /\ last.op = "VectorCopy" /\ ~last.failed
    /\ \E v \in Vecs, w \in Vecs :
          /\ v # w /\ Size(v) = 2 /\ Capacity(v) = 2
          /\ vec[v].data_.buffer_ # vec[w].data_.buffer_
          /\ Elems(v) = Elems(w) /\ Elems(v)[1] # Elems(v)[2]

\* C11: move construction of v from w gives v the size, the capacity and
\* the elements w had, in the very block w held, with no element
\* constructed, copied, moved or destroyed and no block allocated or
\* released; w is left alive and empty: size 0, capacity 0, no block.
Thm_C11 ==
    [][\A v \in Vecs, w \in Vecs :
          (last'.op = "VectorMove" /\ DoMoveCtor(v, w))
          => /\ ~last'.failed
             /\ View(v)' = View(w)
             /\ vec'[v].data_ = vec[w].data_
             /\ heap' = heap
             /\ vec'[w] = EmptyVector]_vars

\* An instance has been move constructed from one of two different
\* elements and spare capacity, which is left empty.
Wit_C11 ==
    /\ last.op = "VectorMove" /\ ~last.failed
    /\ \E v \in Vecs, w \in Vecs :
          /\ v # w /\ vec[w] = EmptyVector
          /\ Size(v) = 2 /\ Capacity(v) = 3 /\ Elems(v)[1] # Elems(v)[2]

\* The call that handed back res made one move construction for each of n
\* existing elements and no copy of them when T's move is noexcept, and one
\* copy construction for each and no move otherwise.
RelocationCounts(res, n) ==
    /\ res.copied = (IF nothrowMove THEN 0 ELSE n)
    /\ res.moved = (IF nothrowMove THEN n ELSE 0)

\* C12: every relocation of the existing elements into a new block (Reserve
\* beyond the capacity, Resize beyond the capacity, EmplaceBack/PushBack and
\* Emplace/Insert at size == capacity) makes, for a T whose move constructor
\* is noexcept, no copy construction and exactly one move construction per
\* existing element, and for any other T only copy constructions, one per
\* existing element.
Thm_C12 ==
    [][\A v \in Vecs :
          /\ \A n \in 0..MaxCap :
                (last'.op = "Reserve" /\ n > Capacity(v) /\ DoReserve(v, n, 0))
                => RelocationCounts(Reserve(heap, vec[v], n, 0), Size(v))
          /\ \A n \in Sizes :
                (last'.op = "Resize" /\ n > Capacity(v) /\ DoResize(v, n, 0))
                => RelocationCounts(Resize(heap, vec[v], n, 0), Size(v))
          /\ \A x \in Vals :
                (last'.op = "PushBack" /\ Size(v) = Capacity(v) /\ DoPushBack(v, x, 0))
                => RelocationCounts(EmplaceBack(heap, vec[v], ValueArg(x), 0), Size(v))
          /\ \A i \in Indexes, x \in Vals :
                (last'.op = "Insert" /\ Size(v) = Capacity(v) /\ DoInsert(v, i, x, 0))
                => RelocationCounts(Emplace(heap, vec[v], i, ValueArg(x), 0), Size(v))
          /\ \A j \in Indexes :
                (/\ last'.op = "PushBackSelf" /\ Size(v) = Capacity(v)
                 /\ DoPushBackSelf(v, j, 0))
                => RelocationCounts(EmplaceBack(heap, vec[v], SelfArg(j), 0), Size(v))
          /\ \A i \in Indexes, j \in Indexes :
                (/\ last'.op = "InsertSelf" /\ Size(v) = Capacity(v)
                 /\ DoInsertSelf(v, i, j, 0))
                => RelocationCounts(Emplace(heap, vec[v], i, SelfArg(j), 0), Size(v))]_vars

\* An Insert into a T relocated by move has left three elements in a block
\* of four: the capacity was doubled from two.
Wit_C12 ==
    /\ nothrowMove /\ last.op = "Insert" /\ ~last.failed
    /\ \E v \in Vecs : Size(v) = 3 /\ Capacity(v) = 4 /\ Elems(v)[1] # Elems(v)[2]

\* C13: Reserve(n) on an instance of capacity c leaves the capacity exactly
\* n when n > c and changes nothing at all when n <= c; either way Size()
\* and the value of every element are what they were.
Thm_C13 ==
    [][\A v \in Vecs, n \in 0..MaxCap :
          (last'.op = "Reserve" /\ DoReserve(v, n, 0))
          => /\ ~last'.failed
             /\ Size(v)' = Size(v) /\ Elems(v)' = Elems(v)
             /\ IF n > Capacity(v) THEN Capacity(v)' = n
                ELSE heap' = heap /\ vec' = vec]_vars

\* A Reserve has left two different elements in a block of three.
Wit_C13 ==
    /\ last.op = "Reserve" /\ ~last.failed
    /\ \E v \in Vecs : Size(v) = 2 /\ Capacity(v) = 3 /\ Elems(v)[1] # Elems(v)[2]

Claim_C15 ==
    \A v \in Vecs :
        vec[v].alive /\ vec[v].data_.buffer_ # Null
        => \A i \in 1..Capacity(v) :
              (heap[vec[v].data_.buffer_][i] # Raw) <=> (i <= Size(v))

\* The blocks that are allocated and not released.
AllocatedBlocks == {b \in BlockIds : heap[b] # <<>>}

\* C16: between any two calls on any instances, no block is held by two
\* instances; every block an instance holds is allocated, with the
\* capacity the instance records, so none is held after its release and
\* none can be released a second time; and every allocated block is held
\* by a live instance, so none is dropped without release.
Thm_C16 ==
    /\ NoSharing
    /\ \A v \in Vecs :
          IF vec[v].data_.buffer_ = Null THEN Capacity(v) = 0
          ELSE /\ vec[v].alive
               /\ vec[v].data_.buffer_ \in AllocatedBlocks
               /\ Len(heap[vec[v].data_.buffer_]) = Capacity(v)
    /\ \A b \in AllocatedBlocks : \E v \in Vecs : vec[v].data_.buffer_ = b

\* A move assignment has exchanged the blocks of two instances of
\* different capacities.
Wit_C16 ==
    /\ last.op = "MoveAssign"
    /\ \E v \in Vecs, w \in Vecs :
          /\ Capacity(v) = 1 /\ Capacity(w) = 3 /\ Size(w) = 2
          /\ vec[v].data_.buffer_ # vec[w].data_.buffer_

\* C17: an Emplace/Insert at size < capacity constructs its temporary from
\* the arguments before it moves any element: when that construction
\* throws, the call propagates it with no element shifted, and size,
\* capacity, every element and every slot of the block are as before.
Thm_C17 ==
    [][\A v \in Vecs, i \in Indexes :
          /\ \A x \in Vals :
                (last'.op = "Insert" /\ Size(v) < Capacity(v) /\ DoInsert(v, i, x, 1))
                => last'.failed /\ View(v)' = View(v) /\ heap' = heap
          /\ \A j \in Indexes :
                (/\ last'.op = "InsertSelf" /\ Size(v) < Capacity(v)
                 /\ DoInsertSelf(v, i, j, 1))
                => last'.failed /\ View(v)' = View(v) /\ heap' = heap]_vars

\* An Insert of a T whose moves are noexcept has thrown at size 2 of
\* capacity 3: nothing but the construction of the temporary can throw
\* there.
Wit_C17 ==
    /\ nothrowMove /\ last.op = "Insert" /\ last.failed
    /\ \E v \in Vecs : Size(v) = 2 /\ Capacity(v) = 3 /\ Elems(v)[1] # Elems(v)[2]

\* What is observed of an instance of capacity c holding the elements E.
Holding(c, E) == [size |-> Len(E), capacity |-> c, elems |-> E]

\* C18: from an empty container, EmplaceBack(1), EmplaceBack(2) and
\* EmplaceBack(3) give size 3, capacity 4 and contents [1,2,3]; then
\* Insert(begin + 1, 9) gives contents [1,9,2,3], size 4 and capacity 4;
\* then Erase(begin) gives contents [9,2,3] and size 3.
Thm_C18 ==
    [][LET v == VecOrder[1]
       IN /\ (View(v) = Holding(0, <<>>) /\ vec[v].alive /\ ScenarioEmplaceBack(1))
             => View(v)' = Holding(1, <<1>>)
          /\ (View(v) = Holding(1, <<1>>) /\ ScenarioEmplaceBack(2))
             => View(v)' = Holding(2, <<1, 2>>)
          /\ (View(v) = Holding(2, <<1, 2>>) /\ ScenarioEmplaceBack(3))
             => View(v)' = Holding(4, <<1, 2, 3>>)
          /\ (View(v) = Holding(4, <<1, 2, 3>>) /\ ScenarioInsert(9))
             => View(v)' = Holding(4, <<1, 9, 2, 3>>)
          /\ (View(v) = Holding(4, <<1, 9, 2, 3>>) /\ ScenarioErase)
             => Size(v)' = 3 /\ Elems(v)' = <<9, 2, 3>>]_vars

\* The Erase of the scenario has acted.
Wit_C18 ==
    /\ last.op = "Erase" /\ ~last.failed
    /\ View(VecOrder[1]) = Holding(4, <<9, 2, 3>>)

\* C19: a copy assignment v = w that returns leaves v with the size and
\* the elements of w, and w as it was; when the size of w was within the
\* capacity of v, v keeps its capacity and its block, otherwise its
\* capacity becomes exactly the size of w; v = v changes nothing.
Thm_C19 ==
    [][\A v \in Vecs, w \in Vecs :
          (last'.op = "CopyAssign" /\ DoCopyAssign(v, w, 0))
          => /\ ~last'.failed
             /\ Size(v)' = Size(w) /\ Elems(v)' = Elems(w)
             /\ View(w)' = View(w)
             /\ IF Size(w) <= Capacity(v)
                THEN vec'[v].data_ = vec[v].data_
                ELSE Capacity(v)' = Size(w)
             /\ v = w => heap' = heap /\ vec' = vec]_vars

\* A copy assignment has given an instance of capacity 3 the one element
\* of another instance, without reallocation.
Wit_C19 ==
    /\ last.op = "CopyAssign" /\ ~last.failed
    /\ \E v \in Vecs, w \in Vecs :
          /\ v # w /\ Size(v) = 1 /\ Capacity(v) = 3 /\ Capacity(w) = 1
          /\ Elems(v) = Elems(w) /\ Elems(v)[1] # DefaultVal

\* C20 (as claimed): v.PushBack(v[j]) and v.Insert(v.begin() + i, v[j])
\* insert the value v[j] had before the call, with and without
\* reallocation, for a T relocated by move as for one relocated by copy.
Claim_C20 ==
    [][\A v \in Vecs, j \in Indexes :
          /\ (last'.op = "PushBackSelf" /\ DoPushBackSelf(v, j, 0))
             => Elems(v)' = Append(Elems(v), Elems(v)[j + 1])
          /\ \A i \in Indexes :
                (last'.op = "InsertSelf" /\ DoInsertSelf(v, i, j, 0))
                => Elems(v)' = InsertedAt(Elems(v), i, Elems(v)[j + 1])]_vars

====
